---------------------------- MODULE Spec2Model ----------------------------
(***************************************************************************)
(* A model of s3pcmd.py: the S3Path URI parser and object path, the        *)
(* S3DatePath date-placeholder resolution, and the S3BotoClient            *)
(* operations over an object store.                                        *)
(*                                                                         *)
(* Python strings are modelled as sequences of one-character strings, so   *)
(* that parsing, normalisation, formatting and replacement are computed    *)
(* character by character as the code computes them.                       *)
(***************************************************************************)
EXTENDS Integers, Sequences, FiniteSets, TLC

VARIABLES
    \* ---- the object store and one S3Path / S3BotoClient operation on it
    store,      \* the buckets: a function from <<bucket, key>> to a body
    call,       \* the operation in progress or finished, with its arguments
    pc,         \* where the operation is: "idle", "cp_page", "cp_obj", "rmr", "done"
    listing,    \* S3Path.ls generator state: [page, token, more, yielded]
    copyLog,    \* the copy calls issued so far: <<[sb, sk, db, dk]>>
    deleteLog,  \* the delete calls issued so far: <<[b, prefix]>>
    putLog,     \* the put_object calls issued so far
    listLog,    \* the number of list_objects_v2 page requests issued so far
    store0,     \* the store when the operation was called
    others,     \* the keys other clients wrote under the source during the call
    \* ---- S3Path instances (parser, __str__, __eq__, is_file)
    uri,        \* the URI string under construction / last constructed
    paths,      \* the S3Path instances constructed so far (a sequence)
    ctor,       \* outcome of the last S3Path(uri) call: "none", "ok", "RuntimeError"
    ret,        \* outcome of the last method call on an instance
    lru,        \* the lru_cache of is_file: at most one <<instance, value>> entry
    \* ---- one S3DatePath instance
    dp,         \* the instance: [bucket, path, path_lst, params], or NoInst
    dctor,      \* outcome of S3DatePath(uri): "none", "ok", or the exception
    shape,      \* how the URI was written: [scheme, bucket, tail, body]
    resolved    \* the resolve_dateid calls: [n, dt, lst, out, before]

vars == <<store, call, pc, listing, copyLog, deleteLog, putLog, listLog, store0, others,
          uri, paths, ctor, ret, lru, dp, dctor, shape, resolved>>

storeVars == <<store, call, pc, listing, copyLog, deleteLog, putLog, listLog, store0,
               others>>
pathVars == <<uri, paths, ctor, ret, lru>>
dateVars == <<dp, dctor, shape, resolved>>

(***************************************************************************)
(* Python str operations on character sequences.                           *)
(***************************************************************************)
Min(S) == CHOOSE x \in S : \A y \in S : x <= y

Max(S) == CHOOSE x \in S : \A y \in S : x >= y

\* s[i:i+len(t)] == t
MatchAt(s, t, i) ==
    /\ i >= 1
    /\ i + Len(t) - 1 <= Len(s)
    /\ SubSeq(s, i, i + Len(t) - 1) = t

\* str.find, 1-based; 0 when t does not occur at or after from
str_find(s, t, from) ==
    LET hits == {i \in from..(Len(s) + 1) : MatchAt(s, t, i)}
    IN  IF hits = {} THEN 0 ELSE Min(hits)

\* t in s
str_in(t, s) == str_find(s, t, 1) # 0

str_startswith(s, t) == MatchAt(s, t, 1)

str_endswith(s, t) == Len(t) <= Len(s) /\ MatchAt(s, t, Len(s) - Len(t) + 1)

RECURSIVE str_interleave(_, _)
\* "abc".replace("", new): new before every character and at the end
str_interleave(s, new) ==
    IF s = <<>> THEN new
    ELSE new \o <<Head(s)>> \o str_interleave(Tail(s), new)

RECURSIVE str_replace(_, _, _)
\* str.replace(old, new): every non-overlapping occurrence, leftmost first
str_replace(s, old, new) ==
    IF old = <<>> THEN str_interleave(s, new)
    ELSE LET i == str_find(s, old, 1)
         IN  IF i = 0 THEN s
             ELSE SubSeq(s, 1, i - 1) \o new
                  \o str_replace(SubSeq(s, i + Len(old), Len(s)), old, new)

RECURSIVE str_split(_, _)
\* str.split(sep) for a one-character sep: "".split("/") = [""]
str_split(s, sep) ==
    LET i == str_find(s, <<sep>>, 1)
    IN  IF i = 0 THEN <<s>>
        ELSE <<SubSeq(s, 1, i - 1)>> \o str_split(SubSeq(s, i + 1, Len(s)), sep)

RECURSIVE str_join(_, _)
\* sep.join(lst)
str_join(sep, lst) ==
    IF lst = <<>> THEN <<>>
    ELSE IF Len(lst) = 1 THEN lst[1]
    ELSE lst[1] \o sep \o str_join(sep, Tail(lst))

Whitespace == {" ", "\t", "\n"}

RECURSIVE str_lstrip(_)
str_lstrip(s) ==
    IF s # <<>> /\ Head(s) \in Whitespace THEN str_lstrip(Tail(s)) ELSE s

RECURSIVE str_rstrip(_)
str_rstrip(s) ==
    IF s # <<>> /\ s[Len(s)] \in Whitespace
    THEN str_rstrip(SubSeq(s, 1, Len(s) - 1)) ELSE s

\* str.strip()
str_strip(s) == str_rstrip(str_lstrip(s))

Digits == <<"0", "1", "2", "3", "4", "5", "6", "7", "8", "9">>

DigitChars == {Digits[i] : i \in 1..10}

DigitVal(c) == (CHOOSE i \in 1..10 : Digits[i] = c) - 1

RECURSIVE int_of(_)
\* int(s) for a string of decimal digits
int_of(s) ==
    IF s = <<>> THEN 0
    ELSE 10 * int_of(SubSeq(s, 1, Len(s) - 1)) + DigitVal(s[Len(s)])

RECURSIVE str_of(_)
\* str(n) for n >= 0: decimal, no leading zeros
str_of(n) ==
    IF n < 10 THEN <<Digits[n + 1]>>
    ELSE str_of(n \div 10) \o <<Digits[(n % 10) + 1]>>

\* "%02d" % n, as strftime writes %m %d %H %M %S
pad2(n) == IF n < 10 THEN <<"0">> \o str_of(n) ELSE str_of(n)


(***************************************************************************)
(* class S3Path: the URI parser and the object path.                       *)
(***************************************************************************)
None == [none |-> TRUE]

SLASH == "/"

S3_SCHEME == <<"s", "3", ":", "/", "/">>

S3N_SCHEME == <<"s", "3", "n", ":", "/", "/">>

\* the length of the longest run of characters in ok starting at s[i]
RECURSIVE RunLen(_, _, _)
RunLen(s, i, ok) ==
    IF i <= Len(s) /\ s[i] \in ok THEN 1 + RunLen(s, i + 1, ok) ELSE 0

\* the length of the longest run of characters not in stop starting at s[i]
RECURSIVE RunLenNot(_, _, _)
RunLenNot(s, i, stop) ==
    IF i <= Len(s) /\ s[i] \notin stop THEN 1 + RunLenNot(s, i + 1, stop) ELSE 0

\* S3PATH_PATTERN.match(uri) for r"(s3[n]?://)([^/]+)[/]?(.*)": None, or the
\* three groups. [^/]+ is greedy and also takes a newline; .* stops at one.
S3PATH_PATTERN_match(u) ==
    LET scheme == IF str_startswith(u, S3N_SCHEME) THEN S3N_SCHEME
                  ELSE IF str_startswith(u, S3_SCHEME) THEN S3_SCHEME
                  ELSE <<>>
        b0     == Len(scheme) + 1
        blen   == RunLenNot(u, b0, {SLASH})
        p0     == IF b0 + blen <= Len(u) /\ u[b0 + blen] = SLASH
                  THEN b0 + blen + 1 ELSE b0 + blen
        plen   == RunLenNot(u, p0, {"\n"})
    IN  IF scheme = <<>> \/ blen = 0 THEN None
        ELSE [none |-> FALSE,
              groups |-> <<scheme, SubSeq(u, b0, b0 + blen - 1),
                           SubSeq(u, p0, p0 + plen - 1)>>]

\* a normalize_path that replaces the first run of "/" only, as
\* re.sub(r"\/\/+", "/", uri, count=1) would
normalize_path_first_run(u) ==
    LET i == str_find(u, <<SLASH, SLASH>>, 1)
    IN  IF i = 0 THEN u
        ELSE LET n == RunLen(u, i, {SLASH})
             IN  SubSeq(u, 1, i - 1) \o <<SLASH>> \o SubSeq(u, i + n, Len(u))

RECURSIVE normalize_path(_)
\* re.sub(r"\/\/+", "/", uri): every run of two or more "/" becomes one "/"
normalize_path(u) ==
    LET i == str_find(u, <<SLASH, SLASH>>, 1)
    IN  IF i = 0 THEN u
        ELSE LET n == RunLen(u, i, {SLASH})
             IN  SubSeq(u, 1, i - 1) \o <<SLASH>>
                 \o normalize_path(SubSeq(u, i + n, Len(u)))

\* S3Path.is_valid(uri)
is_valid(u) == S3PATH_PATTERN_match(u) # None

\* S3Path.__init__(uri): the instance, or the RuntimeError the except clause
\* raises when the pattern does not match (None has no groups()).
S3Path_init(u) ==
    LET m == S3PATH_PATTERN_match(u)
    IN  IF m = None THEN [exc |-> "RuntimeError", arg |-> u]
        ELSE [exc |-> "none",
              obj |-> [proto |-> <<"s", "3">>,
                       bucket |-> m.groups[2],
                       path |-> normalize_path(m.groups[3])]]

\* S3Path.__str__
S3Path_str(self) ==
    self.proto \o <<":", "/", "/">> \o str_join(<<SLASH>>, <<self.bucket, self.path>>)

\* S3Path.__eq__
S3Path_eq(self, other) == self.path = other.path /\ self.bucket = other.bucket

\* S3Path defines __eq__ and no __hash__: Python sets __hash__ to None for such
\* a class, so hash(instance) raises TypeError.
S3Path_hashable == FALSE

\* The body of is_file
is_file_body(self) == ~str_endswith(self.path, <<SLASH>>)

\* an is_file without the lru_cache wrapper: the body runs on every call
is_file_unwrapped(self, cache) ==
    [exc |-> "none", val |-> is_file_body(self), cache |-> cache]

\* functools.lru_cache(maxsize=1) around is_file, called as self.is_file():
\* the cache key is built from the arguments (self) and hashed before the
\* lookup. cache is a sequence of at most one <<key, value>> entry; keys
\* compare with __eq__. Returns the outcome and the cache after the call.
is_file(self, cache) ==
    IF ~S3Path_hashable
    THEN [exc |-> "TypeError", cache |-> cache]
    ELSE IF cache # <<>> /\ S3Path_eq(cache[1][1], self)
         THEN [exc |-> "none", val |-> cache[1][2], cache |-> cache]
         ELSE LET v == is_file_body(self)
              IN  [exc |-> "none", val |-> v, cache |-> <<<<self, v>>>>]

(***************************************************************************)
(* class S3DatePath: placeholder discovery and resolution.                 *)
(***************************************************************************)
DATE_s == <<"D", "A", "T", "E">>

TIME_s == <<"T", "I", "M", "E">>

ID_s == <<"I", "D">>

DATEID_s == DATE_s \o ID_s

DATETIMEID_s == DATE_s \o TIME_s \o ID_s

\* the value of a regex group that did not take part in the match (Python's
\* None), distinct from every character sequence
NoGroup == <<"None">>

\* DateOp.from_str(label)
DateOp_from_str(label) ==
    IF label = <<"+">> THEN "PLUS"
    ELSE IF label = <<"-">> THEN "MINUS"
    ELSE "NONE"

\* r"{(DATE(TIME)?ID)(([-+])(\d+))?}" tried at val[i]: None, or the groups
\* dtype, sign and value (sign and value NoGroup when the optional group is absent)
TokenAt(val, i) ==
    LET j0 == i + 1 + Len(DATE_s)
        isTime == MatchAt(val, TIME_s, j0)
        j1 == IF isTime THEN j0 + Len(TIME_s) ELSE j0
        j2 == j1 + Len(ID_s)
        hasSign == j2 <= Len(val) /\ val[j2] \in {"-", "+"}
        nd == IF hasSign THEN RunLen(val, j2 + 1, DigitChars) ELSE 0
        j3 == IF hasSign /\ nd > 0 THEN j2 + 1 + nd ELSE j2
    IN  IF /\ MatchAt(val, <<"{">>, i)
           /\ MatchAt(val, DATE_s, i + 1)
           /\ MatchAt(val, ID_s, j1)
           /\ MatchAt(val, <<"}">>, j3)
        THEN [none |-> FALSE,
              dtype |-> IF isTime THEN DATETIMEID_s ELSE DATEID_s,
              sign |-> IF j3 > j2 THEN <<val[j2]>> ELSE NoGroup,
              value |-> IF j3 > j2 THEN SubSeq(val, j2 + 1, j3 - 1) ELSE NoGroup,
              len |-> j3 - i + 1]
        ELSE None

\* PARAM_PATTERN.match(val) for r".*{(DATE(TIME)?ID)(([-+])(\d+))?}.*": the
\* leading .* is greedy, so the groups are those of the rightmost token.
PARAM_PATTERN_match(val) ==
    LET starts == {i \in 1..Len(val) : TokenAt(val, i) # None}
    IN  IF starts = {} THEN None ELSE TokenAt(val, Max(starts))

\* the guard of _parse_params
looks_like_param(val) ==
    /\ str_in(<<"{">> \o DATEID_s, val) \/ str_in(<<"{">> \o DATETIMEID_s, val)
    /\ str_in(<<"}">>, val)

RECURSIVE parse_params_from(_, _)
\* S3DatePath._parse_params, from index idx on: the list of S3DateParam, or
\* the AttributeError of None.groups() when the guard holds and the pattern
\* does not match. idx is the index into path_lst (1-based here).
parse_params_from(path_lst, idx) ==
    IF idx > Len(path_lst) THEN [exc |-> "none", params |-> <<>>]
    ELSE LET val == path_lst[idx]
             m == PARAM_PATTERN_match(val)
             rest == parse_params_from(path_lst, idx + 1)
         IN  IF ~looks_like_param(val) THEN rest
             ELSE IF m = None THEN [exc |-> "AttributeError"]
             ELSE IF rest.exc # "none" THEN rest
             ELSE [exc |-> "none",
                   params |-> <<[idx |-> idx,
                                 dt |-> m.dtype,
                                 sign |-> DateOp_from_str(m.sign),
                                 value |-> IF m.value # NoGroup
                                           THEN int_of(m.value) ELSE 0]>>
                              \o rest.params]

parse_params(path_lst) == parse_params_from(path_lst, 1)

\* [p for p in self.path.split("/") if p.strip() != ""]
split_path(path) ==
    SelectSeq(str_split(path, SLASH), LAMBDA p : str_strip(p) # <<>>)

\* S3DatePath.__init__(uri)
S3DatePath_init(u) ==
    LET base == S3Path_init(u)
    IN  IF base.exc # "none" THEN base
        ELSE LET lst == split_path(base.obj.path)
                 ps == parse_params(lst)
             IN  IF ps.exc # "none" THEN [exc |-> ps.exc, arg |-> u]
                 ELSE [exc |-> "none",
                       obj |-> [proto |-> base.obj.proto,
                                bucket |-> base.obj.bucket,
                                path |-> base.obj.path,
                                path_lst |-> lst,
                                params |-> ps.params]]

(***************************************************************************)
(* datetime: a record [y, mo, d, h, mi, s]; dt +/- timedelta(days=n) goes   *)
(* through the proleptic Gregorian ordinal as datetime.__add__ does.       *)
(***************************************************************************)
MAXORDINAL == 3652059

DAYS_IN_MONTH == <<31, 28, 31, 30, 31, 30, 31, 31, 30, 31, 30, 31>>

DAYS_BEFORE_MONTH == <<0, 31, 59, 90, 120, 151, 181, 212, 243, 273, 304, 334>>

is_leap(y) == y % 4 = 0 /\ (y % 100 # 0 \/ y % 400 = 0)

days_before_year(y) ==
    (y - 1) * 365 + ((y - 1) \div 4) - ((y - 1) \div 100) + ((y - 1) \div 400)

days_before_month(y, m) ==
    DAYS_BEFORE_MONTH[m] + (IF m > 2 /\ is_leap(y) THEN 1 ELSE 0)

\* date.toordinal()
ymd2ord(y, m, d) == days_before_year(y) + days_before_month(y, m) + d

\* date.fromordinal(n)
ord2ymd(n0) ==
    LET n   == n0 - 1
        n400 == n \div 146097
        r400 == n % 146097
        n100 == r400 \div 36524
        r100 == r400 % 36524
        n4   == r100 \div 1461
        r4   == r100 % 1461
        n1   == r4 \div 365
        r1   == r4 % 365
        year == n400 * 400 + 1 + n100 * 100 + n4 * 4 + n1
        leapyear == n1 = 3 /\ (n4 # 24 \/ n100 = 3)
        month0 == (r1 + 50) \div 32
        prec0 == DAYS_BEFORE_MONTH[month0]
                 + (IF month0 > 2 /\ leapyear THEN 1 ELSE 0)
        month == IF prec0 > r1 THEN month0 - 1 ELSE month0
        prec == IF prec0 > r1
                THEN prec0 - (DAYS_IN_MONTH[month]
                              + (IF month = 2 /\ leapyear THEN 1 ELSE 0))
                ELSE prec0
    IN  IF n1 = 4 \/ n100 = 4 THEN [y |-> year - 1, mo |-> 12, d |-> 31]
        ELSE [y |-> year, mo |-> month, d |-> r1 - prec + 1]

\* a _compute_offset that moves the date and drops the time of day, as
\* arithmetic on dt.date() would
compute_offset_midnight(dt, op, value) ==
    LET ord == ymd2ord(dt.y, dt.mo, dt.d) + (IF op = "MINUS" THEN -value ELSE value)
        ymd == ord2ymd(ord)
    IN  IF ord < 1 \/ ord > MAXORDINAL THEN [exc |-> "OverflowError"]
        ELSE [exc |-> "none",
              dt |-> [y |-> ymd.y, mo |-> ymd.mo, d |-> ymd.d,
                      h |-> 0, mi |-> 0, s |-> 0]]

\* S3DatePath._compute_offset(dt, op, value): dt - td if op is MINUS, else
\* dt + td, with td = timedelta(days=value); OverflowError outside year 1..9999
compute_offset(dt, op, value) ==
    LET ord == ymd2ord(dt.y, dt.mo, dt.d) + (IF op = "MINUS" THEN -value ELSE value)
        ymd == ord2ymd(ord)
    IN  IF ord < 1 \/ ord > MAXORDINAL THEN [exc |-> "OverflowError"]
        ELSE [exc |-> "none",
              dt |-> [y |-> ymd.y, mo |-> ymd.mo, d |-> ymd.d,
                      h |-> dt.h, mi |-> dt.mi, s |-> dt.s]]

\* dt.strftime(DATE_STR), "%Y-%m-%d"
strftime_date(dt) ==
    str_of(dt.y) \o <<"-">> \o pad2(dt.mo) \o <<"-">> \o pad2(dt.d)

\* dt.strftime(DATETIME_STR), "%Y-%m-%d_%H-%M-%S"
strftime_datetime(dt) ==
    strftime_date(dt) \o <<"_">> \o pad2(dt.h) \o <<"-">> \o pad2(dt.mi)
    \o <<"-">> \o pad2(dt.s)

\* S3DatePath._reconstruct_match_token(param)
reconstruct_match_token(param) ==
    <<"{">> \o param.dt
    \o (IF param.sign \in {"PLUS", "MINUS"}
        THEN <<IF param.sign = "PLUS" THEN "+" ELSE "-">> \o str_of(param.value)
        ELSE <<>>)
    \o <<"}">>

\* S3DatePath._extract_value(param, dt): [idx, token, value]
extract_value(param, dt) ==
    LET ts == IF param.sign = "NONE" THEN [exc |-> "none", dt |-> dt]
              ELSE compute_offset(dt, param.sign, param.value)
    IN  IF ts.exc # "none" THEN ts
        ELSE [exc |-> "none",
              idx |-> param.idx,
              token |-> reconstruct_match_token(param),
              value |-> IF param.dt = DATEID_s THEN strftime_date(ts.dt)
                        ELSE strftime_datetime(ts.dt)]

\* the list comprehension of resolve_dateid: one S3DateValue per parameter
resolved_lst(params, dt) == [i \in 1..Len(params) |-> extract_value(params[i], dt)]

RECURSIVE apply_values(_, _)
\* the for loop of resolve_dateid: each element's token is replaced by its
\* value in the stored segment self._path_lst[el.idx]
apply_values(path_lst, lst) ==
    IF lst = <<>> THEN path_lst
    ELSE LET el == Head(lst)
         IN  apply_values(
                 [path_lst EXCEPT ![el.idx] = str_replace(@, el.token, el.value)],
                 Tail(lst))

\* S3DatePath.resolve_dateid(dt): the returned string and the instance after
\* the call (the loop assigns into self._path_lst)
resolve_dateid(self, dt) ==
    LET lst == resolved_lst(self.params, dt)
    IN  IF \E i \in 1..Len(lst) : lst[i].exc # "none"
        THEN [exc |-> "OverflowError", self |-> self]
        ELSE LET new_lst == apply_values(self.path_lst, lst)
             IN  [exc |-> "none",
                  lst |-> lst,
                  self |-> [self EXCEPT !.path_lst = new_lst],
                  out |-> self.proto \o <<":", "/", "/">>
                          \o str_join(<<SLASH>>,
                                      <<self.bucket, str_join(<<SLASH>>, new_lst)>>)]

(***************************************************************************)
(* The S3DatePath state machine: one instance is constructed from a URI    *)
(* and resolved against timestamps any number of times.                    *)
(***************************************************************************)
\* the longest path body, in pieces, a URI is written with
MaxPieces == 3

NoInst == [proto |-> <<>>, bucket |-> <<>>, path |-> <<>>, path_lst |-> <<>>,
           params |-> <<>>]

\* The pieces a path is written with: the separator, plain text, and whole
\* "{...}" groups. tok says the piece is a token of the placeholder grammar
\* and kind, sign, n say what it denotes; canon says n is written without
\* leading zeros.
Piece(txt, tok, kind, sign, n, canon) ==
    [txt |-> txt, tok |-> tok, kind |-> kind, sign |-> sign, n |-> n, canon |-> canon]

SepPiece == Piece(<<SLASH>>, FALSE, "", "NONE", 0, TRUE)

Pieces ==
    { SepPiece,
      Piece(<<"x">>, FALSE, "", "NONE", 0, TRUE),
      Piece(<<"{">> \o DATEID_s \o <<"}">>, TRUE, "DATEID", "NONE", 0, TRUE),
      Piece(<<"{">> \o DATETIMEID_s \o <<"-", "1", "}">>, TRUE, "DATETIMEID", "MINUS", 1, TRUE),
      Piece(<<"{">> \o DATEID_s \o <<"+", "2", "}">>, TRUE, "DATEID", "PLUS", 2, TRUE),
      Piece(<<"{">> \o DATEID_s \o <<"-", "0", "1", "}">>, TRUE, "DATEID", "MINUS", 1, FALSE),
      Piece(<<"{">> \o DATEID_s \o <<"5", "}">>, FALSE, "", "NONE", 0, TRUE) }

Schemes == {S3_SCHEME, S3N_SCHEME, <<"s", "4", ":", "/", "/">>}

Buckets == {<<"b">>}

\* the timestamps resolve_dateid is called with
AsOfs ==
    { [y |-> 2017, mo |-> 11, d |-> 28, h |-> 23, mi |-> 55, s |-> 59],
      [y |-> 2020, mo |-> 3, d |-> 1, h |-> 0, mi |-> 0, s |-> 5],
      [y |-> 2099, mo |-> 12, d |-> 31, h |-> 12, mi |-> 30, s |-> 0] }

Bodies == UNION {[1..n -> Pieces] : n \in 0..MaxPieces}

RECURSIVE Concat(_)
Concat(seqs) == IF seqs = <<>> THEN <<>> ELSE Head(seqs) \o Concat(Tail(seqs))

BodyText(body) == Concat([i \in 1..Len(body) |-> body[i].txt])

\* the URI as written: scheme, bucket and, when it has a tail, "/" and the body
WrittenUri(scheme, bucket, hasTail, body) ==
    scheme \o bucket \o (IF hasTail THEN <<SLASH>> \o BodyText(body) ELSE <<>>)

NoShape == [uri |-> <<>>, body |-> <<>>]

NoResolve == [n |-> 0, dt |-> [y |-> 0, mo |-> 0, d |-> 0, h |-> 0, mi |-> 0, s |-> 0],
              exc |-> "none", lst |-> <<>>, out |-> <<>>, before |-> <<>>]

InitDate ==
    /\ dp = NoInst
    /\ dctor = "none"
    /\ shape = NoShape
    /\ resolved = NoResolve

\* s3p = S3DatePath(uri)
NewS3DatePath(scheme, bucket, hasTail, body) ==
    /\ dctor = "none"
    /\ \E u \in {WrittenUri(scheme, bucket, hasTail, body)} :
           \E r \in {S3DatePath_init(u)} :
               /\ shape' = [uri |-> u, body |-> IF hasTail THEN body ELSE <<>>]
               /\ dctor' = IF r.exc = "none" THEN "ok" ELSE r.exc
               /\ dp' = IF r.exc = "none" THEN r.obj ELSE NoInst
    /\ UNCHANGED resolved

\* s3p.resolve_dateid(dt)
ResolveDateid(dt) ==
    /\ dctor = "ok"
    /\ \E r \in {resolve_dateid(dp, dt)} :
        /\ dp' = r.self
        /\ resolved' = [n |-> IF resolved.n < 2 THEN resolved.n + 1 ELSE 2,
                        dt |-> dt,
                        exc |-> r.exc,
                        lst |-> IF r.exc = "none" THEN r.lst ELSE <<>>,
                        out |-> IF r.exc = "none" THEN r.out ELSE <<>>,
                        before |-> dp.path_lst]
        /\ UNCHANGED <<dctor, shape>>

NextDate ==
    \/ /\ dctor = "none"
       /\ \E scheme \in Schemes, bucket \in Buckets, hasTail \in BOOLEAN, body \in Bodies :
              /\ (hasTail \/ body = <<>>)
              /\ NewS3DatePath(scheme, bucket, hasTail, body)
       /\ UNCHANGED <<storeVars, pathVars>>
    \/ \E dt \in AsOfs :
           /\ ResolveDateid(dt)
           /\ UNCHANGED <<storeVars, pathVars>>

(***************************************************************************)
(* The storage service: buckets of objects, listed a page at a time in key *)
(* order, copied, put and deleted by prefix.                               *)
(***************************************************************************)
\* the characters of the keys, in byte order
CharOrder == <<"/", "C", "E", "S", "U", "_", "a", "b", "c", "x", "y">>

CharRank(c) == CHOOSE i \in 1..Len(CharOrder) : CharOrder[i] = c

RECURSIVE KeyLess(_, _)
\* a < b in the byte order S3 lists keys in
KeyLess(a, b) ==
    IF b = <<>> THEN FALSE
    ELSE IF a = <<>> THEN TRUE
    ELSE IF Head(a) = Head(b) THEN KeyLess(Tail(a), Tail(b))
    ELSE CharRank(Head(a)) < CharRank(Head(b))

RECURSIVE SortedKeys(_)
SortedKeys(S) ==
    IF S = {} THEN <<>>
    ELSE LET k == CHOOSE x \in S : \A y \in S \ {x} : KeyLess(x, y)
         IN  <<k>> \o SortedKeys(S \ {k})

EmptyStore == [loc \in {} |-> <<>>]

\* the keys of bucket b that start with prefix
KeysUnder(st, b, prefix) ==
    {loc[2] : loc \in {l \in DOMAIN st : l[1] = b /\ str_startswith(l[2], prefix)}}

\* one list_objects_v2 request: at most size keys under prefix after token,
\* and whether the listing is truncated
list_objects_v2(st, b, prefix, token, size) ==
    LET all == SortedKeys({k \in KeysUnder(st, b, prefix) : KeyLess(token, k)})
        n == IF Len(all) < size THEN Len(all) ELSE size
    IN  [page |-> SubSeq(all, 1, n), more |-> Len(all) > n]

\* put_object(Key=key, Body=body)
put_object(st, b, key, body) ==
    [loc \in DOMAIN st \cup {<<b, key>>} |->
        IF loc = <<b, key>> THEN body ELSE st[loc]]

\* objects.filter(Prefix=prefix).delete()
delete_prefix(st, b, prefix) ==
    [loc \in {l \in DOMAIN st : ~(l[1] = b /\ str_startswith(l[2], prefix))} |-> st[loc]]

\* the longest key the service stores (S3: 1024 bytes), scaled to the model
MaxKeyLen == 14

\* the listing page size S3Path.ls asks for (page_size=100), scaled to the model
PageSize == 2

\* max_items of S3Path.ls
MaxItems == 1000000

\* bucket.copy(from_resource, Key=new_key): the store after the copy, or the
\* error of a missing source or an unacceptable destination key
s3_copy(st, sb, sk, db, dk) ==
    IF dk = <<>> THEN [exc |-> "ParamValidationError", store |-> st]
    ELSE IF <<sb, sk>> \notin DOMAIN st \/ Len(dk) > MaxKeyLen
    THEN [exc |-> "ClientError", store |-> st]
    ELSE [exc |-> "none", store |-> put_object(st, db, dk, st[<<sb, sk>>])]

(***************************************************************************)
(* S3Path.cp / mv / rmr / put / ls and the S3BotoClient class methods.     *)
(***************************************************************************)
SUCCESS_FILE == <<"_", "S", "U", "C", "C", "E", "S", "S">>

\* any([obj["Key"].endswith(excluded) for excluded in excludes])
is_excluded(key, excludes) ==
    \E i \in 1..Len(excludes) : str_endswith(key, excludes[i])

\* new_key = dest_path.path + key.replace(self.path, "")
new_key(self, dest_path, key) ==
    dest_path.path \o str_replace(key, self.path, <<>>)

\* Key=S3Path.normalize_path("{prefix}/{postfix}")
put_key(self, postfix) == normalize_path(self.path \o <<SLASH>> \o postfix)

NoPath == [proto |-> <<>>, bucket |-> <<>>, path |-> <<>>]

NoListing == [page |-> <<>>, token |-> <<>>, more |-> FALSE, yielded |-> 0]

\* the record of an operation: its name and arguments, the S3Path instances it
\* built, the exception it ended with and the URIs the message carries, and
\* what it returned
Call(op, uris, src, dst, excludes, recursive, limit) ==
    [op |-> op, uris |-> uris, src |-> src, dst |-> dst, excludes |-> excludes,
     recursive |-> recursive, limit |-> limit, exc |-> "none", msg |-> <<>>,
     ret |-> <<>>]

NoCall == Call("none", <<>>, NoPath, NoPath, <<>>, FALSE, 0)

\* the operation ends with an exception
Raise(c, exc, msg) == [c EXCEPT !.exc = exc, !.msg = msg]

\* the variables of the parts a specification does not exercise
StoreIdle ==
    /\ store = EmptyStore
    /\ call = NoCall
    /\ pc = "idle"
    /\ listing = NoListing
    /\ copyLog = <<>>
    /\ deleteLog = <<>>
    /\ putLog = <<>>
    /\ listLog = 0
    /\ store0 = EmptyStore
    /\ others = {}

NoRet == [op |-> "none", self |-> 0, other |-> 0, exc |-> "none", val |-> FALSE]

PathIdle ==
    /\ uri = <<>>
    /\ paths = <<>>
    /\ ctor = "none"
    /\ ret = NoRet
    /\ lru = <<>>

InitD == InitDate /\ StoreIdle /\ PathIdle

SpecDate == InitD /\ [][NextDate]_vars

(***************************************************************************)
(* What the claims about S3DatePath say, stated without the code's own     *)
(* operators: the calendar by stepping one day at a time, the formats by   *)
(* digit positions, the path text by the pieces it was written with.       *)
(***************************************************************************)
LeapYear(y) == (y % 4 = 0 /\ y % 100 # 0) \/ y % 400 = 0

DaysIn(y, m) ==
    IF m \in {4, 6, 9, 11} THEN 30
    ELSE IF m = 2 THEN (IF LeapYear(y) THEN 29 ELSE 28)
    ELSE 31

NextDay(t) ==
    IF t.d < DaysIn(t.y, t.mo) THEN [t EXCEPT !.d = t.d + 1]
    ELSE IF t.mo < 12 THEN [t EXCEPT !.mo = t.mo + 1, !.d = 1]
    ELSE [t EXCEPT !.y = t.y + 1, !.mo = 1, !.d = 1]

PrevDay(t) ==
    IF t.d > 1 THEN [t EXCEPT !.d = t.d - 1]
    ELSE IF t.mo > 1 THEN [t EXCEPT !.mo = t.mo - 1, !.d = DaysIn(t.y, t.mo - 1)]
    ELSE [t EXCEPT !.y = t.y - 1, !.mo = 12, !.d = 31]

RECURSIVE Shift(_, _, _)
\* t moved by n whole days (n * 24h), the time of day kept
Shift(t, sign, n) ==
    IF sign = "NONE" \/ n = 0 THEN t
    ELSE Shift(IF sign = "PLUS" THEN NextDay(t) ELSE PrevDay(t), sign, n - 1)

D2(n) == <<Digits[(n \div 10) + 1], Digits[(n % 10) + 1]>>

\* YYYY-MM-DD
FormatDate(t) == D2(t.y \div 100) \o D2(t.y % 100) \o <<"-">> \o D2(t.mo) \o <<"-">> \o D2(t.d)

\* YYYY-MM-DD_HH-MM-SS
FormatDateTime(t) ==
    FormatDate(t) \o <<"_">> \o D2(t.h) \o <<"-">> \o D2(t.mi) \o <<"-">> \o D2(t.s)

ExpectedValue(piece, asOf) ==
    IF piece.kind = "DATEID" THEN FormatDate(Shift(asOf, piece.sign, piece.n))
    ELSE FormatDateTime(Shift(asOf, piece.sign, piece.n))

RECURSIVE PieceSegs(_)
\* the segments of a written body: the maximal runs of pieces between
\* separators, the empty runs dropped
PieceSegs(body) ==
    LET seps == {i \in 1..Len(body) : body[i] = SepPiece}
    IN  IF seps = {} THEN (IF body = <<>> THEN <<>> ELSE <<body>>)
        ELSE LET i == Min(seps)
                 rest == PieceSegs(SubSeq(body, i + 1, Len(body)))
             IN  IF i = 1 THEN rest ELSE <<SubSeq(body, 1, i - 1)>> \o rest

\* the token the pattern matches in a segment: its last grammar token
LastToken(seg) == seg[Max({i \in 1..Len(seg) : seg[i].tok})]

\* a token of the grammar {DATE(TIME)?ID([+-]digits)?} occurs in s
HasGrammarToken(s) ==
    \E i \in 1..Len(s), j \in 1..Len(s) :
        /\ i < j
        /\ s[i] = "{"
        /\ s[j] = "}"
        /\ \E kind \in {DATEID_s, DATETIMEID_s} :
               LET inner == SubSeq(s, i + 1, j - 1)
                   rest == SubSeq(inner, Len(kind) + 1, Len(inner))
               IN  /\ str_startswith(inner, kind)
                   /\ \/ rest = <<>>
                      \/ /\ Len(rest) >= 2
                         /\ rest[1] \in {"+", "-"}
                         /\ \A k \in 2..Len(rest) : rest[k] \in DigitChars

\* C1: resolve_dateid is pure: every call returns what a freshly constructed
\* instance of the same URI returns for that timestamp, and leaves the stored
\* segment list and placeholder list as construction made them.
C1_ResolveIsPure ==
    (dctor = "ok" /\ resolved.n >= 1 /\ resolved.exc = "none") =>
        LET fresh == S3DatePath_init(shape.uri).obj
        IN  /\ resolved.out = resolve_dateid(fresh, resolved.dt).out
            /\ dp.path_lst = fresh.path_lst
            /\ dp.params = fresh.params

\* C8: for every placeholder and every timestamp the value computed for it is
\* the formatting (DATEID as YYYY-MM-DD, DATETIMEID as YYYY-MM-DD_HH-MM-SS) of
\* the timestamp moved by the written number of whole days in the written
\* direction, and on the first resolve of an instance a segment is its written
\* pieces with the placeholder's token replaced by that value, the text before
\* and after it preserved.
C8_SubstitutedValue ==
    (dctor = "ok" /\ resolved.n >= 1) =>
        LET segs == PieceSegs(shape.body)
        IN  /\ resolved.exc = "none"
            /\ Len(dp.path_lst) = Len(segs)
            /\ Len(resolved.lst) = Len(dp.params)
            /\ \A i \in 1..Len(dp.params) :
                   LET k == dp.params[i].idx
                       wp == LastToken(segs[k])
                   IN  /\ \E j \in 1..Len(segs[k]) : segs[k][j].tok
                       /\ resolved.lst[i].idx = k
                       /\ resolved.lst[i].value = ExpectedValue(wp, resolved.dt)
            /\ resolved.n = 1 =>
                   \A k \in 1..Len(segs) :
                       LET toks == {j \in 1..Len(segs[k]) : segs[k][j].tok}
                       IN  IF toks = {} \/ ~LastToken(segs[k]).canon
                           THEN TRUE
                           ELSE dp.path_lst[k] =
                                    Concat([j \in 1..Len(segs[k]) |->
                                        IF segs[k][j] = LastToken(segs[k])
                                        THEN ExpectedValue(LastToken(segs[k]), resolved.dt)
                                        ELSE segs[k][j].txt])

\* C8 witness: {DATETIMEID-1} between two pieces of text, resolved on the first
\* of March of a leap year: the value is the 29th of February, same time of day.
C8_Witness ==
    /\ dctor = "ok"
    /\ resolved.n = 1
    /\ resolved.dt = [y |-> 2020, mo |-> 3, d |-> 1, h |-> 0, mi |-> 0, s |-> 5]
    /\ Len(dp.params) = 1
    /\ dp.params[1].sign = "MINUS"
    /\ dp.params[1].dt = DATETIMEID_s
    /\ dp.path_lst = << <<"x", "2", "0", "2", "0", "-", "0", "2", "-", "2", "9", "_",
                          "0", "0", "-", "0", "0", "-", "0", "5", "x">> >>

\* C9: after resolve, no token of the placeholder grammar remains in the
\* returned URI string.
C9_NoTokenRemains ==
    (dctor = "ok" /\ resolved.n >= 1 /\ resolved.exc = "none") =>
        ~HasGrammarToken(resolved.out)

\* C10: for a path written with no placeholder, resolve returns the string
\* form of the normalized path, whatever the timestamp.
C10_RoundTrip ==
    (/\ dctor = "ok"
     /\ resolved.n >= 1
     /\ \A i \in 1..Len(shape.body) : ~shape.body[i].tok) =>
        resolved.out = S3Path_str(dp)

\* a run of two or more "/" in s from position from on
HasSlashRun(s, from) ==
    \E i \in from..(Len(s) - 1) : s[i] = SLASH /\ s[i + 1] = SLASH

\* C11: a path written with no segment, scheme://bucket or scheme://bucket/,
\* resolves to exactly scheme://bucket with no trailing "/", and no resolved
\* URI holds a run of two or more "/" after the "://" of the scheme.
C11_NoSegments ==
    (dctor = "ok" /\ resolved.n >= 1 /\ resolved.exc = "none") =>
        /\ shape.body = <<>> =>
               resolved.out = dp.proto \o <<":", "/", "/">> \o dp.bucket
        /\ ~HasSlashRun(resolved.out, Len(dp.proto) + 4)

(***************************************************************************)
(* The storage state machine: a store holding some objects, and one        *)
(* S3Path or S3BotoClient operation on it. cp and mv list lazily: a page   *)
(* is requested when the loop asks for the object after the last one of    *)
(* the page before, so the requests interleave with the copies.            *)
(***************************************************************************)
\* the most objects the store holds when the operation is called
MaxObjects == 3

B1 == <<"b", "1">>

B2 == <<"b", "2">>

KeyUniverse ==
    { <<"a", "/", "x">>,
      <<"a", "/", "y">>,
      <<"a", "/">> \o SUCCESS_FILE,
      <<"a", "/", "b", "/", "x">>,
      <<"a", "/", "a", "/", "x">>,
      <<"a", "b">> }

\* a store whose objects carry their own key as body
StoreOf(b, keys) == [loc \in {<<b, k>> : k \in keys} |-> loc[2]]

InitStores == {StoreOf(B1, keys) : keys \in {S \in SUBSET KeyUniverse : Cardinality(S) <= MaxObjects}}

UriPool ==
    { S3_SCHEME \o B1 \o <<"/", "a", "/">>,
      S3_SCHEME \o B1 \o <<"/", "a">>,
      S3_SCHEME \o B1 \o <<"/", "a", "/", "b", "/">>,
      S3_SCHEME \o B1 \o <<"/", "a", "/", "y", "/">>,
      S3_SCHEME \o B1,
      S3_SCHEME \o B2 \o <<"/", "a", "/">>,
      S3N_SCHEME \o B1 \o <<"/", "/", "c", "/", "/">>,
      <<"s", "4", ":", "/", "/">> \o B1 \o <<"/", "a", "/">>,
      <<"s", "3", ":", "/", "/", "/", "a">> }

ExcludeLists == {<<>>, <<SUCCESS_FILE>>}

Limits == {0, 1, 3}

InitStore ==
    /\ store \in InitStores
    /\ call = NoCall
    /\ pc = "idle"
    /\ listing = NoListing
    /\ copyLog = <<>>
    /\ deleteLog = <<>>
    /\ putLog = <<>>
    /\ listLog = 0
    /\ store0 = EmptyStore
    /\ others = {}

\* where cp goes when its loop over self.ls() ends: mv goes on to self.rmr()
AfterCp(c) == IF c.op = "S3Path.mv" THEN "rmr" ELSE "done"

\* S3Path(su).cp(S3Path(du), excludes) and S3Path(su).mv(S3Path(du), excludes),
\* up to the first request of the listing
PathCpOrMv(op, su, du, excludes) ==
    LET a == S3Path_init(su)
        b == S3Path_init(du)
        c == Call(op, <<su, du>>, NoPath, NoPath, excludes, FALSE, 0)
    IN  /\ pc = "idle"
        /\ store0' = store
        /\ IF a.exc # "none"
           THEN call' = Raise(c, a.exc, <<su>>) /\ pc' = "done"
           ELSE IF b.exc # "none"
           THEN call' = Raise(c, b.exc, <<du>>) /\ pc' = "done"
           ELSE call' = [c EXCEPT !.src = a.obj, !.dst = b.obj] /\ pc' = "cp_list"
        /\ UNCHANGED <<store, listing, copyLog, deleteLog, putLog, listLog>>

PathCp(su, du, excludes) == PathCpOrMv("S3Path.cp", su, du, excludes)

PathMv(su, du, excludes) == PathCpOrMv("S3Path.mv", su, du, excludes)

\* a check of S3BotoClient.cp that passes when either URI is valid
cp_uris_valid_either(su, du) == is_valid(su) \/ is_valid(du)

\* the check of S3BotoClient.cp
cp_uris_valid(su, du) == is_valid(su) /\ is_valid(du)

\* S3BotoClient.cp(s3_src_uri, s3_dst_uri), up to the first request of the
\* listing; cp runs with its default excludes
ClientCp(su, du) ==
    LET c == Call("S3BotoClient.cp", <<su, du>>, NoPath, NoPath, <<SUCCESS_FILE>>, FALSE, 0)
    IN  /\ pc = "idle"
        /\ store0' = store
        /\ IF cp_uris_valid(su, du)
           THEN LET a == S3Path_init(su)
                    b == S3Path_init(du)
                IN  IF a.exc # "none" \/ b.exc # "none"
                    THEN call' = Raise(c, "RuntimeError", <<su, du>>) /\ pc' = "done"
                    ELSE /\ call' = [c EXCEPT !.src = a.obj, !.dst = b.obj]
                         /\ pc' = IF ~S3Path_eq(a.obj, b.obj) THEN "cp_list" ELSE "done"
           ELSE call' = Raise(c, "InvalidS3PathError", <<su, du>>) /\ pc' = "done"
        /\ UNCHANGED <<store, listing, copyLog, deleteLog, putLog, listLog>>

\* S3Path.ls inside cp: the generator asks for the next page
CpFetchPage ==
    LET r == list_objects_v2(store, call.src.bucket, call.src.path,
                             listing.token, PageSize)
    IN  /\ pc = "cp_list"
        /\ listLog' = listLog + 1
        /\ IF r.page = <<>>
           THEN pc' = AfterCp(call) /\ UNCHANGED listing
           ELSE /\ pc' = "cp_obj"
                /\ listing' = [listing EXCEPT !.page = r.page,
                                              !.token = r.page[Len(r.page)],
                                              !.more = r.more]
        /\ UNCHANGED <<store, call, copyLog, deleteLog, putLog, store0>>

\* one turn of the loop of S3Path.cp, on the next listed object
CpObject ==
    LET key == Head(listing.page)
        nk == new_key(call.src, call.dst, key)
        r == s3_copy(store, call.src.bucket, key, call.dst.bucket, nk)
        skip == is_excluded(key, call.excludes)
        rest == Tail(listing.page)
        n == listing.yielded + 1
    IN  /\ pc = "cp_obj"
        /\ listing' = [listing EXCEPT !.page = rest, !.yielded = n]
        /\ copyLog' = IF skip THEN copyLog
                      ELSE Append(copyLog, [sb |-> call.src.bucket, sk |-> key,
                                            db |-> call.dst.bucket, dk |-> nk])
        /\ store' = IF skip THEN store ELSE r.store
        /\ IF ~skip /\ r.exc # "none"
           THEN call' = Raise(call, r.exc, <<>>) /\ pc' = "done"
           ELSE /\ call' = call
                /\ pc' = IF n >= MaxItems THEN AfterCp(call)
                         ELSE IF rest # <<>> THEN "cp_obj"
                         ELSE IF listing.more THEN "cp_list"
                         ELSE AfterCp(call)
        /\ UNCHANGED <<deleteLog, putLog, listLog, store0>>

\* self.rmr() at the end of S3Path.mv
MvRmr ==
    /\ pc = "rmr"
    /\ store' = delete_prefix(store, call.src.bucket, call.src.path)
    /\ deleteLog' = Append(deleteLog, [b |-> call.src.bucket, prefix |-> call.src.path])
    /\ pc' = "done"
    /\ UNCHANGED <<call, listing, copyLog, putLog, listLog, store0>>

\* mv is not atomic: between its list, copy and delete requests another client
\* of the store writes an object under the source prefix (once per call)
OtherClientPut(key) ==
    /\ pc \in {"cp_list", "cp_obj", "rmr"}
    /\ call.op = "S3Path.mv"
    /\ others = {}
    /\ str_startswith(key, call.src.path)
    /\ <<call.src.bucket, key>> \notin DOMAIN store
    /\ store' = put_object(store, call.src.bucket, key, key)
    /\ others' = {key}
    /\ UNCHANGED <<call, pc, listing, copyLog, deleteLog, putLog, listLog, store0>>

\* S3Path(u).rmr()
PathRmr(u) ==
    LET a == S3Path_init(u)
        c == Call("S3Path.rmr", <<u>>, NoPath, NoPath, <<>>, FALSE, 0)
    IN  /\ pc = "idle"
        /\ store0' = store
        /\ pc' = "done"
        /\ IF a.exc # "none"
           THEN call' = Raise(c, a.exc, <<u>>) /\ UNCHANGED <<store, deleteLog>>
           ELSE /\ call' = [c EXCEPT !.src = a.obj]
                /\ store' = delete_prefix(store, a.obj.bucket, a.obj.path)
                /\ deleteLog' = Append(deleteLog, [b |-> a.obj.bucket, prefix |-> a.obj.path])
        /\ UNCHANGED <<listing, copyLog, putLog, listLog>>

\* an rm that calls rmr() on every valid URI, whatever the recursive flag
rm_any_valid(u, recursive) ==
    IF ~is_valid(u) THEN [exc |-> "InvalidS3PathError", rmr |-> FALSE, path |-> NoPath]
    ELSE [exc |-> "none", rmr |-> TRUE, path |-> S3Path_init(u).obj]

\* what S3BotoClient.rm(s3_uri, recursive) ends with: the exception it raises,
\* or the path it calls rmr() on
rm(u, recursive) ==
    IF ~is_valid(u) THEN [exc |-> "InvalidS3PathError", rmr |-> FALSE, path |-> NoPath]
    ELSE LET s3_path == S3Path_init(u).obj
             f == is_file(s3_path, <<>>)
         IN  IF f.exc # "none" THEN [exc |-> f.exc, rmr |-> FALSE, path |-> s3_path]
             ELSE IF f.val THEN [exc |-> "none", rmr |-> TRUE, path |-> s3_path]
             ELSE IF ~recursive THEN [exc |-> "ClientError", rmr |-> FALSE, path |-> s3_path]
             ELSE [exc |-> "none", rmr |-> TRUE, path |-> s3_path]

\* S3BotoClient.rm(s3_uri, recursive)
ClientRm(u, recursive) ==
    LET r == rm(u, recursive)
        c == Call("S3BotoClient.rm", <<u>>, r.path, NoPath, <<>>, recursive, 0)
    IN  /\ pc = "idle"
        /\ store0' = store
        /\ pc' = "done"
        /\ call' = IF r.exc # "none" THEN Raise(c, r.exc, <<u>>) ELSE c
        /\ IF r.rmr
           THEN /\ store' = delete_prefix(store, r.path.bucket, r.path.path)
                /\ deleteLog' = Append(deleteLog, [b |-> r.path.bucket, prefix |-> r.path.path])
           ELSE UNCHANGED <<store, deleteLog>>
        /\ UNCHANGED <<listing, copyLog, putLog, listLog>>

\* S3BotoClient.ls(s3_uri, limit), up to the first request of the listing:
\* islice(..., 0) never asks the generator for an object
ClientLs(u, limit) ==
    LET c == Call("S3BotoClient.ls", <<u>>, NoPath, NoPath, <<>>, FALSE, limit)
    IN  /\ pc = "idle"
        /\ store0' = store
        /\ IF ~is_valid(u)
           THEN call' = Raise(c, "InvalidS3PathError", <<u>>) /\ pc' = "done"
           ELSE /\ call' = [c EXCEPT !.src = S3Path_init(u).obj]
                /\ pc' = IF limit = 0 THEN "done" ELSE "ls_list"
        /\ UNCHANGED <<store, listing, copyLog, deleteLog, putLog, listLog>>

\* S3Path.ls inside S3BotoClient.ls: the generator asks for the next page and
\* islice takes its objects until limit are taken
LsFetchPage ==
    LET r == list_objects_v2(store, call.src.bucket, call.src.path,
                             listing.token, PageSize)
        room == call.limit - Len(call.ret)
        left == MaxItems - listing.yielded
        cap == IF room < left THEN room ELSE left
        n == IF Len(r.page) < cap THEN Len(r.page) ELSE cap
        taken == SubSeq(r.page, 1, n)
    IN  /\ pc = "ls_list"
        /\ listLog' = listLog + 1
        /\ call' = [call EXCEPT !.ret = @ \o taken]
        /\ listing' = [listing EXCEPT !.token = IF r.page = <<>> THEN @ ELSE r.page[Len(r.page)],
                                      !.more = r.more,
                                      !.yielded = @ + n]
        /\ pc' = IF r.more /\ n = Len(r.page) /\ n < cap THEN "ls_list" ELSE "done"
        /\ UNCHANGED <<store, copyLog, deleteLog, putLog, store0>>

\* S3BotoClient.add_flag_file(s3_uri, file_name, content)
ClientAddFlagFile(u, file_name, content) ==
    LET c == Call("S3BotoClient.add_flag_file", <<u>>, NoPath, NoPath, <<>>, FALSE, 0)
    IN  /\ pc = "idle"
        /\ store0' = store
        /\ pc' = "done"
        /\ IF ~is_valid(u)
           THEN call' = Raise(c, "InvalidS3PathError", <<u>>) /\ UNCHANGED <<store, putLog>>
           ELSE LET s3_path == S3Path_init(u).obj
                    key == put_key(s3_path, file_name)
                IN  /\ call' = [c EXCEPT !.src = s3_path]
                    /\ store' = put_object(store, s3_path.bucket, key, content)
                    /\ putLog' = Append(putLog, [b |-> s3_path.bucket, key |-> key])
        /\ UNCHANGED <<listing, copyLog, deleteLog, listLog>>

\* S3Path.is_valid(uri)
IsValid(u) ==
    /\ pc = "idle"
    /\ call' = [Call("S3Path.is_valid", <<u>>, NoPath, NoPath, <<>>, FALSE, 0)
                    EXCEPT !.ret = <<is_valid(u)>>]
    /\ pc' = "done"
    /\ store0' = store
    /\ UNCHANGED <<store, listing, copyLog, deleteLog, putLog, listLog>>

Next ==
    \/ \E su \in UriPool, du \in UriPool, ex \in ExcludeLists :
           PathCp(su, du, ex) /\ UNCHANGED <<pathVars, dateVars, others>>
    \/ \E su \in UriPool, du \in UriPool, ex \in ExcludeLists :
           PathMv(su, du, ex) /\ UNCHANGED <<pathVars, dateVars, others>>
    \/ \E su \in UriPool, du \in UriPool :
           ClientCp(su, du) /\ UNCHANGED <<pathVars, dateVars, others>>
    \/ CpFetchPage /\ UNCHANGED <<pathVars, dateVars, others>>
    \/ CpObject /\ UNCHANGED <<pathVars, dateVars, others>>
    \/ MvRmr /\ UNCHANGED <<pathVars, dateVars, others>>
    \/ \E u \in UriPool : PathRmr(u) /\ UNCHANGED <<pathVars, dateVars, others>>
    \/ \E u \in UriPool, recursive \in BOOLEAN :
           ClientRm(u, recursive) /\ UNCHANGED <<pathVars, dateVars, others>>
    \/ \E u \in UriPool, limit \in Limits :
           ClientLs(u, limit) /\ UNCHANGED <<pathVars, dateVars, others>>
    \/ LsFetchPage /\ UNCHANGED <<pathVars, dateVars, others>>
    \/ \E u \in UriPool : ClientAddFlagFile(u, SUCCESS_FILE, <<>>) /\ UNCHANGED <<pathVars, dateVars, others>>
    \/ \E u \in UriPool : IsValid(u) /\ UNCHANGED <<pathVars, dateVars, others>>
    \/ \E key \in KeyUniverse : OtherClientPut(key) /\ UNCHANGED <<pathVars, dateVars>>

Init == InitStore /\ PathIdle /\ InitDate

Spec == Init /\ [][Next]_vars

(***************************************************************************)
(* The S3Path state machine: instances are constructed from URIs and their *)
(* methods called in any order.                                            *)
(***************************************************************************)
\* the longest text after the scheme a generated URI has
MaxTail == 4

TailChars == {"a", SLASH}

Tails == UNION {[1..n -> TailChars] : n \in 0..MaxTail}

\* scheme://bucket/a//b///c
ExampleUri ==
    S3_SCHEME \o <<"b", "k", "t", "/", "a", "/", "/", "b", "/", "/", "/", "c">>

GenUris == {scheme \o tail : scheme \in Schemes, tail \in Tails} \cup {ExampleUri}

\* the instances a behaviour holds
Slots == {1, 2}

\* S3Path(u)
NewS3Path(u) ==
    LET r == S3Path_init(u)
    IN  /\ Len(paths) < Cardinality(Slots)
        /\ uri' = u
        /\ ctor' = IF r.exc = "none" THEN "ok" ELSE r.exc
        /\ paths' = IF r.exc = "none" THEN Append(paths, r.obj) ELSE paths
        /\ UNCHANGED <<ret, lru>>

\* paths[i].is_file()
IsFile(i) ==
    LET r == is_file(paths[i], lru)
    IN  /\ ret' = [op |-> "is_file", self |-> i, other |-> 0, exc |-> r.exc,
                   val |-> IF r.exc = "none" THEN r.val ELSE FALSE]
        /\ lru' = r.cache
        /\ UNCHANGED <<uri, paths, ctor>>

\* paths[i] == paths[j]
Eq(i, j) ==
    /\ ret' = [op |-> "eq", self |-> i, other |-> j, exc |-> "none",
               val |-> S3Path_eq(paths[i], paths[j])]
    /\ UNCHANGED <<uri, paths, ctor, lru>>

NextPath ==
    \/ \E u \in GenUris : NewS3Path(u) /\ UNCHANGED <<storeVars, dateVars>>
    \/ \E i \in 1..Len(paths) : IsFile(i) /\ UNCHANGED <<storeVars, dateVars>>
    \/ \E i \in 1..Len(paths), j \in 1..Len(paths) :
           Eq(i, j) /\ UNCHANGED <<storeVars, dateVars>>

InitP == PathIdle /\ StoreIdle /\ InitDate

SpecPath == InitP /\ [][NextPath]_vars

(***************************************************************************)
(* The claims about S3Path and the storage operations.                     *)
(***************************************************************************)
\* the grammar scheme://bucket[/path]: an accepted scheme, then a bucket of
\* at least one character that is not "/"
MatchesGrammar(u) ==
    \E scheme \in {S3_SCHEME, S3N_SCHEME} :
        /\ Len(u) > Len(scheme)
        /\ SubSeq(u, 1, Len(scheme)) = scheme
        /\ u[Len(scheme) + 1] # SLASH

\* the objects a listing of the prefix yields
Listed(st, p) == KeysUnder(st, p.bucket, p.path)

\* C2: after a successful mv from a source prefix to a destination prefix that
\* was empty, listing the source yields nothing and listing the destination
\* yields as many objects as the source held without an excluded postfix.
C2_MvMovesAll ==
    (/\ pc = "done"
     /\ call.op = "S3Path.mv"
     /\ call.exc = "none"
     /\ others = {}
     /\ Listed(store0, call.dst) = {}) =>
        /\ Listed(store, call.src) = {}
        /\ Cardinality(Listed(store, call.dst)) =
               Cardinality({k \in Listed(store0, call.src) : ~is_excluded(k, call.excludes)})

\* the number of copy calls issued for source key k
CopiesOf(k) == Cardinality({i \in 1..Len(copyLog) : copyLog[i].sk = k})

\* C3: cp ends having issued exactly one copy call for each object that was
\* under the source prefix when it was called and has no excluded postfix,
\* and no copy call for any other object; the objects under the source prefix
\* are as they were.
C3_OneCopyPerObject ==
    (/\ pc = "done"
     /\ call.op = "S3Path.cp"
     /\ call.exc # "RuntimeError") =>
        /\ \A k \in Listed(store0, call.src) :
               CopiesOf(k) = IF is_excluded(k, call.excludes) THEN 0 ELSE 1
        /\ \A i \in 1..Len(copyLog) : copyLog[i].sk \in Listed(store0, call.src)
        /\ \A k \in Listed(store0, call.src) :
               /\ <<call.src.bucket, k>> \in DOMAIN store
               /\ store[<<call.src.bucket, k>>] = store0[<<call.src.bucket, k>>]

\* C4: S3BotoClient.rm with recursive=False on a valid URI whose path ends
\* with "/" ends in an error and issues no delete: the store is as it was.
C4_RmPrefixNotRecursive ==
    (/\ pc = "done"
     /\ call.op = "S3BotoClient.rm"
     /\ ~call.recursive
     /\ MatchesGrammar(call.uris[1])
     /\ call.uris[1][Len(call.uris[1])] = SLASH) =>
        /\ call.exc # "none"
        /\ deleteLog = <<>>
        /\ store = store0

\* C4 witness: such a call on a prefix that holds objects
C4_Witness ==
    /\ pc = "done"
    /\ call.op = "S3BotoClient.rm"
    /\ ~call.recursive
    /\ call.uris[1] = S3_SCHEME \o B1 \o <<"/", "a", "/">>
    /\ str_endswith(call.src.path, <<SLASH>>)
    /\ Cardinality(Listed(store0, call.src)) >= 2
    /\ call.exc # "none"

\* C5: every call of is_file() returns, and returns true iff the normalized
\* path does not end with "/"; it returns false for a path with a trailing "/"
\* and for the empty path, whatever calls were made before.
C5_IsFile ==
    ret.op = "is_file" =>
        LET path == paths[ret.self].path
        IN  /\ ret.exc = "none"
            /\ ret.val = (path # <<>> /\ path[Len(path)] # SLASH)

\* C6: the path of a parsed URI holds no run of two or more "/", and parsing
\* the string form of the parsed path gives the same bucket and path.
C6_NormalizedAndIdempotent ==
    \A i \in 1..Len(paths) :
        /\ \A k \in 1..(Len(paths[i].path) - 1) :
               ~(paths[i].path[k] = SLASH /\ paths[i].path[k + 1] = SLASH)
        /\ LET again == S3Path_init(S3Path_str(paths[i]))
           IN  /\ again.exc = "none"
               /\ again.obj.bucket = paths[i].bucket
               /\ again.obj.path = paths[i].path

\* C6 witness: scheme://bucket/a//b///c parsed to path a/b/c, string form
\* scheme://bucket/a/b/c
C6_Witness ==
    /\ Len(paths) >= 1
    /\ uri = ExampleUri
    /\ ctor = "ok"
    /\ paths[Len(paths)].path = <<"a", "/", "b", "/", "c">>
    /\ S3Path_str(paths[Len(paths)]) =
           S3_SCHEME \o <<"b", "k", "t", "/", "a", "/", "b", "/", "c">>

ClientOps ==
    {"S3BotoClient.rm", "S3BotoClient.ls", "S3BotoClient.cp", "S3BotoClient.add_flag_file"}

\* C7: is_valid is false exactly when constructing an S3Path raises, that is
\* exactly for the URIs outside the grammar; and a client operation given such
\* a URI raises the invalid-URI error carrying the input, having made no
\* storage call: the store is as it was.
C7_InvalidUriRejected ==
    pc = "done" =>
        /\ call.op = "S3Path.is_valid" =>
               /\ call.ret = <<MatchesGrammar(call.uris[1])>>
               /\ (call.ret = <<FALSE>>) <=> (S3Path_init(call.uris[1]).exc # "none")
        /\ call.op \in {"S3Path.cp", "S3Path.mv", "S3Path.rmr"} =>
               (call.exc = "RuntimeError") <=>
                   (\E i \in 1..Len(call.uris) : ~MatchesGrammar(call.uris[i]))
        /\ (/\ call.op \in ClientOps
            /\ \E i \in 1..Len(call.uris) : ~MatchesGrammar(call.uris[i])) =>
               /\ call.exc = "InvalidS3PathError"
               /\ \E i \in 1..Len(call.msg) :
                      ~MatchesGrammar(call.msg[i]) /\ call.msg[i] \in
                          {call.uris[j] : j \in 1..Len(call.uris)}
               /\ listLog = 0
               /\ copyLog = <<>>
               /\ deleteLog = <<>>
               /\ putLog = <<>>
               /\ store = store0

\* C7 witness: cp from a valid source to s4://... on a store holding objects
C7_Witness ==
    /\ pc = "done"
    /\ call.op = "S3BotoClient.cp"
    /\ MatchesGrammar(call.uris[1])
    /\ call.uris[2] = <<"s", "4", ":", "/", "/">> \o B1 \o <<"/", "a", "/">>
    /\ call.exc = "InvalidS3PathError"
    /\ DOMAIN store # {}

\* C12: the destination key of every copy call is the destination path
\* followed by the part of the source key after the source path, the source
\* path taken as the leading prefix of the key only.
C12_PrefixReplaced ==
    call.op \in {"S3Path.cp", "S3Path.mv", "S3BotoClient.cp"} =>
        \A i \in 1..Len(copyLog) :
            LET sk == copyLog[i].sk
            IN  /\ str_startswith(sk, call.src.path)
                /\ copyLog[i].db = call.dst.bucket
                /\ copyLog[i].dk =
                       call.dst.path \o SubSeq(sk, Len(call.src.path) + 1, Len(sk))

\* C13: constructing an S3DatePath succeeds for every URI of the grammar, and
\* a segment written with no token of the placeholder grammar, such as
\* {DATEID5}, has no placeholder and is the same text after resolve.
C13_NoTokenNoPlaceholder ==
    (dctor # "none" /\ MatchesGrammar(shape.uri)) =>
        /\ dctor = "ok"
        /\ LET segs == PieceSegs(shape.body)
           IN  /\ Len(dp.path_lst) = Len(segs)
               /\ \A k \in 1..Len(segs) :
                      (\A j \in 1..Len(segs[k]) : ~segs[k][j].tok) =>
                          /\ \A i \in 1..Len(dp.params) : dp.params[i].idx # k
                          /\ dp.path_lst[k] = BodyText(segs[k])

\* an object with this body is under the destination
CopiedToDst(body) ==
    \E k \in Listed(store, call.dst) : store[<<call.dst.bucket, k>>] = body

\* C14: after mv returns successfully, every object that was under the source
\* prefix during the call, those with an excluded postfix and those another
\* client wrote before the delete included, has a copy under the destination.
C14_MvDeletesOnlyCopied ==
    (/\ pc = "done"
     /\ call.op = "S3Path.mv"
     /\ call.exc = "none") =>
        /\ \A k \in Listed(store0, call.src) :
               CopiedToDst(store0[<<call.src.bucket, k>>])
        /\ \A k \in others : CopiedToDst(k)

=============================================================================
